---- MODULE Spec2Model ----
(***************************************************************************)
(* Crossword generator: CrosswordGenerator (js/crossword-generator.js) and *)
(* the grid helpers of Utils (js/utils.js).                                *)
(*                                                                         *)
(* Coordinates are 0-based as in the source.  A grid is a sequence of rows, *)
(* each a sequence of cells, and a word is a sequence of one-letter        *)
(* strings, so grid[r][c] of the source is Cell(grid, r, c) and word[i] is *)
(* word[i + 1] here.                                                       *)
(* Scores are kept as exact fractions num/den; the one-letter word, whose  *)
(* score the source computes as 0/0, carries nan = TRUE.                   *)
(***************************************************************************)
EXTENDS Integers, Sequences, FiniteSets, TLC

VARIABLES
  grid,         \* this.grid
  placedWords,  \* this.placedWords
  clueNumber,   \* this.clueNumber
  input,        \* the argument of the current (or last) generate call
  words,        \* sortedWords, the array placeWords consumes
  attempts,     \* placeWords: attempts
  maxAttempts,  \* placeWords: maxAttempts
  pc,           \* position in generate
  puzzle,       \* the value the last generate call returned
  error,        \* the message of the error the last generate call threw
  prev          \* what the caller of generate keeps from one call to the next
                \* in the call before this one, if there was such a call

vars == <<grid, placedWords, clueNumber, input, words, attempts, maxAttempts,
          pc, puzzle, error, prev>>

----------------------------------------------------------------------------
(* Values *)

Null == "null"
Undefined == "undefined"
TypeError == "TypeError"
NoPuzzle == [none |-> TRUE]
NoError == ""

\* Bounds of the model: the longest word list handed to generate, and the
\* longest one that holds the over-long word.
MaxWords == 3
MaxLongWords == 2

\* utils.js:235  Math.min(estimatedSize, 50)
MaxGridSize == 50
\* crossword-generator.js:151  words.length * 100
AttemptFactor == 100

WordA == <<"a">>
WordAt == <<"a", "t">>
WordCat == <<"c", "a", "t">>
WordQwe == <<"q", "w", "e">>
\* one letter longer than the widest grid calculateGridSize can return
WordLong == [i \in 1..(MaxGridSize + 1) |-> "z"]

Vocabulary == {WordA, WordAt, WordCat, WordQwe, WordLong}

Range(s) == {s[i] : i \in DOMAIN s}

\* The lists of distinct words of at most n words
RECURSIVE DistinctLists(_)
DistinctLists(n) ==
  IF n = 0 THEN {<<>>}
  ELSE LET shorter == DistinctLists(n - 1)
       IN shorter \cup
          {Append(l, w) : l \in {s \in shorter : Len(s) = n - 1},
                          w \in Vocabulary}

\* The word lists generate is called with: lists of distinct words (what
\* Utils.parseWords produces), the empty list included.
WordLists ==
  {l \in DistinctLists(IF MaxWords > MaxLongWords THEN MaxWords ELSE MaxLongWords) :
     /\ Cardinality(Range(l)) = Len(l)
     /\ Len(l) <= (IF WordLong \in Range(l) THEN MaxLongWords ELSE MaxWords)}
Arg(ws) == [defined |-> TRUE, list |-> ws]
Missing == [defined |-> FALSE, list |-> <<>>]
Inputs == {Arg(l) : l \in WordLists} \cup {Missing}

Abs(x) == IF x < 0 THEN -x ELSE x
Max(a, b) == IF a >= b THEN a ELSE b
Min(a, b) == IF a <= b THEN a ELSE b
Sign(x) == IF x < 0 THEN -1 ELSE IF x > 0 THEN 1 ELSE 0

----------------------------------------------------------------------------
(* Utils *)

Rows(g) == Len(g)
Cols(g) == Len(g[1])
Cell(g, row, col) == g[row + 1][col + 1]

\* grid[row][col]: a column outside the row reads undefined, a row outside
\* the grid makes the read throw.
GridAt(g, row, col) ==
  IF row < 0 \/ row >= Len(g) THEN TypeError
  ELSE IF col < 0 \/ col >= Len(g[row + 1]) THEN Undefined
  ELSE Cell(g, row, col)

CellRow(row, i, isHorizontal) == IF isHorizontal THEN row ELSE row + i
CellCol(col, i, isHorizontal) == IF isHorizontal THEN col + i ELSE col

CanPlaceWord(word, row, col, isHorizontal, g) ==
  LET wordLength == Len(word)
      gridRows == Rows(g)
      gridCols == Cols(g)
  IN IF isHorizontal /\ col + wordLength > gridCols THEN FALSE
     ELSE IF ~isHorizontal /\ row + wordLength > gridRows THEN FALSE
     ELSE \A i \in 0..(wordLength - 1) :
            LET currentCell == GridAt(g, CellRow(row, i, isHorizontal),
                                         CellCol(col, i, isHorizontal))
            IN currentCell = Null \/ currentCell = word[i + 1]

IsValidPosition(row, col, g) ==
  row >= 0 /\ row < Rows(g) /\ col >= 0 /\ col < Cols(g)

\* The while loops of hasWordEndingAt: the number of filled cells counted
\* backwards (leftwards or upwards) from (row, col).
RECURSIVE RunLengthBack(_, _, _, _)
RunLengthBack(row, col, g, isHorizontal) ==
  IF isHorizontal
  THEN IF col >= 0 /\ GridAt(g, row, col) # Null
       THEN 1 + RunLengthBack(row, col - 1, g, isHorizontal)
       ELSE 0
  ELSE IF row >= 0 /\ GridAt(g, row, col) # Null
       THEN 1 + RunLengthBack(row - 1, col, g, isHorizontal)
       ELSE 0

\* A faulty hasWordEndingAt, for fault injection: the threshold of lines 200
\* and 213 off by one, a single letter counting as a word.
HasWordEndingAtSingle(row, col, g, isHorizontal) ==
  RunLengthBack(row, col, g, isHorizontal) >= 1

HasWordEndingAt(row, col, g, isHorizontal) ==
  RunLengthBack(row, col, g, isHorizontal) >= 2

GetAdjacentPositions(row, col, isHorizontal) ==
  IF isHorizontal
  THEN << <<row - 1, col>>, <<row + 1, col>> >>
  ELSE << <<row, col - 1>>, <<row, col + 1>> >>

\* A faulty hasValidWordBoundaries, for fault injection: the tests of the
\* neighbour below (lines 109-113) and of the neighbour to the right (lines
\* 127-131) left out.
NeighbourRejectsFirstOnly(currentRow, currentCol, isHorizontal, g) ==
  LET adj == GetAdjacentPositions(currentRow, currentCol, isHorizontal)[1]
  IN /\ IsValidPosition(adj[1], adj[2], g)
     /\ Cell(g, adj[1], adj[2]) # Null
     /\ ~HasWordEndingAt(adj[1], adj[2], g, ~isHorizontal)

\* One iteration of the loop of hasValidWordBoundaries on an empty cell: the
\* two perpendicular neighbours, a filled one having to end a run of two.
NeighbourRejects(currentRow, currentCol, isHorizontal, g) ==
  \E k \in 1..2 :
    LET adj == GetAdjacentPositions(currentRow, currentCol, isHorizontal)[k]
    IN /\ IsValidPosition(adj[1], adj[2], g)
       /\ Cell(g, adj[1], adj[2]) # Null
       /\ ~HasWordEndingAt(adj[1], adj[2], g, ~isHorizontal)

NeighbourFilled(currentRow, currentCol, isHorizontal, g) ==
  \E k \in 1..2 :
    LET adj == GetAdjacentPositions(currentRow, currentCol, isHorizontal)[k]
    IN IsValidPosition(adj[1], adj[2], g) /\ Cell(g, adj[1], adj[2]) # Null

HasValidWordBoundaries(word, row, col, isHorizontal, g) ==
  LET wordLength == Len(word)
      R(i) == CellRow(row, i, isHorizontal)
      C(i) == CellCol(col, i, isHorizontal)
      filled(i) == Cell(g, R(i), C(i)) # Null
      rejects(i) == IF filled(i) THEN Cell(g, R(i), C(i)) # word[i + 1]
                    ELSE NeighbourRejects(R(i), C(i), isHorizontal, g)
      intersects(i) == filled(i) \/ NeighbourFilled(R(i), C(i), isHorizontal, g)
  IN IF \E i \in 0..(wordLength - 1) : rejects(i) THEN FALSE
     ELSE \E i \in 0..(wordLength - 1) : intersects(i)

CeilSqrt(n) == CHOOSE k \in 0..n : k * k >= n /\ (k = 0 \/ (k - 1) * (k - 1) < n)

MaxLength(ws) == CHOOSE m \in {Len(ws[i]) : i \in DOMAIN ws} :
                   \A i \in DOMAIN ws : Len(ws[i]) <= m

CalculateGridSize(ws) ==
  IF Len(ws) = 0 THEN [rows |-> 20, cols |-> 20]
  ELSE LET maxWordLength == MaxLength(ws)
           totalWords == Len(ws)
           baseSize == Max(maxWordLength + 4,
                           CeilSqrt(totalWords * maxWordLength * 3))
           estimatedSize == (baseSize * 3) \div 2
       IN [rows |-> Min(estimatedSize, MaxGridSize),
           cols |-> Min(estimatedSize, MaxGridSize)]

GenerateClue(word) == <<"A ", Len(word), "-letter word">>

----------------------------------------------------------------------------
(* CrosswordGenerator: word ordering *)

\* letterFrequency, in hundredths
LetterFrequency ==
  [u \in {"E", "T", "A", "O", "I", "N", "S", "R", "H", "D", "L", "U", "C",
          "M", "W", "F", "G", "Y", "P", "B", "V", "K", "J", "X", "Q", "Z"} |->
     CASE u = "E" -> 1202 [] u = "T" -> 910 [] u = "A" -> 812 [] u = "O" -> 768
       [] u = "I" -> 731 [] u = "N" -> 695 [] u = "S" -> 628 [] u = "R" -> 602
       [] u = "H" -> 592 [] u = "D" -> 432 [] u = "L" -> 398 [] u = "U" -> 288
       [] u = "C" -> 271 [] u = "M" -> 261 [] u = "W" -> 230 [] u = "F" -> 211
       [] u = "G" -> 209 [] u = "Y" -> 211 [] u = "P" -> 182 [] u = "B" -> 149
       [] u = "V" -> 111 [] u = "K" -> 69 [] u = "J" -> 10 [] u = "X" -> 10
       [] u = "Q" -> 10 [] u = "Z" -> 7]

\* String.prototype.toUpperCase on one letter
ToUpperCase(ch) ==
  CASE ch = "a" -> "A" [] ch = "b" -> "B" [] ch = "c" -> "C" [] ch = "d" -> "D"
    [] ch = "e" -> "E" [] ch = "f" -> "F" [] ch = "g" -> "G" [] ch = "h" -> "H"
    [] ch = "i" -> "I" [] ch = "j" -> "J" [] ch = "k" -> "K" [] ch = "l" -> "L"
    [] ch = "m" -> "M" [] ch = "n" -> "N" [] ch = "o" -> "O" [] ch = "p" -> "P"
    [] ch = "q" -> "Q" [] ch = "r" -> "R" [] ch = "s" -> "S" [] ch = "t" -> "T"
    [] ch = "u" -> "U" [] ch = "v" -> "V" [] ch = "w" -> "W" [] ch = "x" -> "X"
    [] ch = "y" -> "Y" [] ch = "z" -> "Z" [] OTHER -> ch

\* middlePreference = 1 - |i / (wordLength - 1) - 0.5| * 2, times
\* (wordLength - 1); defined for wordLength >= 2.
MiddlePreferenceNum(i, wordLength) ==
  (wordLength - 1) - Abs(2 * i - (wordLength - 1))

RECURSIVE SumTo(_, _)
SumTo(f, n) == IF n < 0 THEN 0 ELSE f[n] + SumTo(f, n - 1)

\* The score is num / den; a one-letter word divides 0 by 0 and scores NaN.
CalculateWordIntersectionScore(word) ==
  LET wordLength == Len(word)
      frequency(i) == LET letter == ToUpperCase(word[i + 1])
                      IN IF letter \in DOMAIN LetterFrequency
                         THEN LetterFrequency[letter] ELSE 0
      term == [i \in 0..(wordLength - 1) |->
                 frequency(i) * MiddlePreferenceNum(i, wordLength)]
  IN IF wordLength = 1 THEN [nan |-> TRUE, num |-> 0, den |-> 1]
     ELSE [nan |-> FALSE, num |-> SumTo(term, wordLength - 1),
           den |-> 100 * (wordLength - 1)]

\* The comparator of sortWordsByIntersectionPotential: its sign.
\* Math.abs(aScore - bScore) > 0.1 is false when a score is NaN.
CompareWords(a, b) ==
  LET aScore == CalculateWordIntersectionScore(a)
      bScore == CalculateWordIntersectionScore(b)
      diff == aScore.num * bScore.den - bScore.num * aScore.den
  IN IF ~aScore.nan /\ ~bScore.nan /\ Abs(diff) * 10 > aScore.den * bScore.den
     THEN Sign(-diff)
     ELSE Sign(Len(b) - Len(a))

\* Array.prototype.sort on a short array: binary insertion, stable.
RECURSIVE BinarySearch(_, _, _, _)
BinarySearch(sorted, pivot, left, right) ==
  IF left >= right THEN left
  ELSE LET mid == left + ((right - left) \div 2)
       IN IF CompareWords(pivot, sorted[mid + 1]) < 0
          THEN BinarySearch(sorted, pivot, left, mid)
          ELSE BinarySearch(sorted, pivot, mid + 1, right)

InsertAt(s, k, x) == SubSeq(s, 1, k) \o <<x>> \o SubSeq(s, k + 1, Len(s))

RECURSIVE InsertionSort(_, _)
InsertionSort(ws, n) ==
  IF n = 0 THEN <<>>
  ELSE LET sorted == InsertionSort(ws, n - 1)
       IN InsertAt(sorted, BinarySearch(sorted, ws[n], 0, n - 1), ws[n])

SortWordsByIntersectionPotential(ws) == InsertionSort(ws, Len(ws))

----------------------------------------------------------------------------
(* CrosswordGenerator: positions *)

InitializeGrid(rows, cols) == [i \in 1..rows |-> [j \in 1..cols |-> Null]]

\* The two double loops of findValidPositions, in their order.
FindValidPositions(word, g) ==
  LET wordLength == Len(word)
      nRows == Rows(g)
      nCols == Cols(g)
      hCols == Max(nCols - wordLength + 1, 0)
      vRows == Max(nRows - wordLength + 1, 0)
      horizontal == [k \in 1..(nRows * hCols) |->
                       [row |-> (k - 1) \div hCols, col |-> (k - 1) % hCols,
                        isHorizontal |-> TRUE]]
      vertical == [k \in 1..(vRows * nCols) |->
                     [row |-> (k - 1) \div nCols, col |-> (k - 1) % nCols,
                      isHorizontal |-> FALSE]]
      fits(p) == CanPlaceWord(word, p.row, p.col, p.isHorizontal, g)
  IN SelectSeq(horizontal, fits) \o SelectSeq(vertical, fits)

\* A faulty calculatePositionScore, for fault injection: the two weights of
\* line 284 exchanged, the count weighing 100 and the middle preference 10.
CalculatePositionScoreSwapped(word, row, col, isHorizontal, g) ==
  LET wordLength == Len(word)
      hit == {i \in 0..(wordLength - 1) :
                Cell(g, CellRow(row, i, isHorizontal),
                        CellCol(col, i, isHorizontal)) # Null}
      intersectionCount == Cardinality(hit)
      pref == [i \in 0..(wordLength - 1) |->
                 IF i \in hit THEN MiddlePreferenceNum(i, wordLength) ELSE 0]
  IN IF wordLength = 1
     THEN [nan |-> intersectionCount > 0, num |-> 0, den |-> 1]
     ELSE [nan |-> FALSE,
           num |-> intersectionCount * 100 * (wordLength - 1)
                   + SumTo(pref, wordLength - 1) * 10,
           den |-> wordLength - 1]

\* intersectionCount * 10 + totalScore * 100 as num / (wordLength - 1); with
\* one letter the middle preference of an intersection is 0/0 and the score
\* is NaN.
CalculatePositionScore(word, row, col, isHorizontal, g) ==
  LET wordLength == Len(word)
      hit == {i \in 0..(wordLength - 1) :
                Cell(g, CellRow(row, i, isHorizontal),
                        CellCol(col, i, isHorizontal)) # Null}
      intersectionCount == Cardinality(hit)
      pref == [i \in 0..(wordLength - 1) |->
                 IF i \in hit THEN MiddlePreferenceNum(i, wordLength) ELSE 0]
  IN IF wordLength = 1
     THEN [nan |-> intersectionCount > 0, num |-> 0, den |-> 1]
     ELSE [nan |-> FALSE,
           num |-> intersectionCount * 10 * (wordLength - 1)
                   + SumTo(pref, wordLength - 1) * 100,
           den |-> wordLength - 1]

\* The comparator of the sort in tryPlaceWord: the sign of bScore - aScore,
\* a NaN result counting as 0.  Both scores have the same denominator.
ComparePositions(word, a, b, g) ==
  LET aScore == CalculatePositionScore(word, a.row, a.col, a.isHorizontal, g)
      bScore == CalculatePositionScore(word, b.row, b.col, b.isHorizontal, g)
  IN IF aScore.nan \/ bScore.nan THEN 0 ELSE Sign(bScore.num - aScore.num)

RECURSIVE ConcatDescending(_, _, _, _)
ConcatDescending(word, positions, keys, g) ==
  IF keys = {} THEN <<>>
  ELSE LET top == CHOOSE k \in keys : \A m \in keys : m <= k
           hasKey(p) == CalculatePositionScore(word, p.row, p.col,
                                               p.isHorizontal, g).num = top
       IN SelectSeq(positions, hasKey)
          \o ConcatDescending(word, positions, keys \ {top}, g)

\* positions.sort(...): Array.prototype.sort is stable, so positions the
\* comparator calls equal keep their search order.  With a one-letter word
\* every comparison is 0 (0 - 0 or NaN) and the order is unchanged.
SortPositions(word, positions, g) ==
  IF Len(word) = 1 THEN positions
  ELSE ConcatDescending(word, positions,
         {CalculatePositionScore(word, positions[k].row, positions[k].col,
                                 positions[k].isHorizontal, g).num :
            k \in DOMAIN positions}, g)

----------------------------------------------------------------------------
(* CrosswordGenerator: placement *)

\* A faulty placeWord, for fault injection: the boundary check of lines
\* 301-304 left out, a word that fits being committed.
PlaceWordAcceptsFitOnly(word, row, col, isHorizontal) ==
  CanPlaceWord(word, row, col, isHorizontal, grid)

\* The two checks that open placeWord.
PlaceWordAccepts(word, row, col, isHorizontal) ==
  /\ CanPlaceWord(word, row, col, isHorizontal, grid)
  /\ \/ Len(placedWords) = 0
     \/ HasValidWordBoundaries(word, row, col, isHorizontal, grid)

\* A faulty placeWord, for fault injection: the letters written on a grid
\* that was emptied first, the cells of the earlier words cleared.
WriteWordOnEmptied(g, word, row, col, isHorizontal) ==
  [r1 \in DOMAIN g |->
     [c1 \in DOMAIN g[r1] |->
        LET r == r1 - 1
            c == c1 - 1
        IN IF isHorizontal
           THEN IF r = row /\ c >= col /\ c < col + Len(word)
                THEN word[c - col + 1] ELSE Null
           ELSE IF c = col /\ r >= row /\ r < row + Len(word)
                THEN word[r - row + 1] ELSE Null]]

WriteWord(g, word, row, col, isHorizontal) ==
  [r1 \in DOMAIN g |->
     [c1 \in DOMAIN g[r1] |->
        LET r == r1 - 1
            c == c1 - 1
        IN IF isHorizontal
           THEN IF r = row /\ c >= col /\ c < col + Len(word)
                THEN word[c - col + 1] ELSE Cell(g, r, c)
           ELSE IF c = col /\ r >= row /\ r < row + Len(word)
                THEN word[r - row + 1] ELSE Cell(g, r, c)]]

\* A faulty placeWord, for fault injection: it commits as placeWord does
\* but leaves out the this.clueNumber++ of line 321.
PlaceWordNoIncrement(word, row, col, isHorizontal) ==
  IF ~PlaceWordAccepts(word, row, col, isHorizontal)
  THEN [placed |-> FALSE, grid |-> grid, placedWords |-> placedWords,
        clueNumber |-> clueNumber]
  ELSE [placed |-> TRUE,
        grid |-> WriteWord(grid, word, row, col, isHorizontal),
        placedWords |-> Append(placedWords,
                          [word |-> word, row |-> row, col |-> col,
                           isHorizontal |-> isHorizontal,
                           clueNumber |-> clueNumber]),
        clueNumber |-> clueNumber]

\* placeWord: the value returned and the engine's fields after the call.
PlaceWord(word, row, col, isHorizontal) ==
  IF ~PlaceWordAccepts(word, row, col, isHorizontal)
  THEN [placed |-> FALSE, grid |-> grid, placedWords |-> placedWords,
        clueNumber |-> clueNumber]
  ELSE [placed |-> TRUE,
        grid |-> WriteWord(grid, word, row, col, isHorizontal),
        placedWords |-> Append(placedWords,
                          [word |-> word, row |-> row, col |-> col,
                           isHorizontal |-> isHorizontal,
                           clueNumber |-> clueNumber]),
        clueNumber |-> clueNumber + 1]

\* tryPlaceWord: the positions in the order the for loop tries them; a
\* rejected placeWord changes nothing, so the loop commits the first
\* position placeWord accepts.
TryOrder(word) == SortPositions(word, FindValidPositions(word, grid), grid)

TryPlaceWord(word) ==
  LET positions == TryOrder(word)
      accepted == {k \in DOMAIN positions :
                     PlaceWordAccepts(word, positions[k].row, positions[k].col,
                                      positions[k].isHorizontal)}
  IN IF accepted = {}
     THEN [placed |-> FALSE, grid |-> grid, placedWords |-> placedWords,
           clueNumber |-> clueNumber]
     ELSE LET first == CHOOSE k \in accepted : \A m \in accepted : k <= m
          IN PlaceWord(word, positions[first].row, positions[first].col,
                       positions[first].isHorizontal)

\* trimGrid: the bounding box of the filled cells.
FilledCells(g) ==
  {rc \in (0..(Rows(g) - 1)) \X (0..(Cols(g) - 1)) : Cell(g, rc[1], rc[2]) # Null}

SetMin(S) == CHOOSE x \in S : \A y \in S : x <= y
SetMax(S) == CHOOSE x \in S : \A y \in S : x >= y

TrimBounds(g) ==
  LET filled == FilledCells(g)
  IN IF filled = {}
     THEN [minRow |-> Rows(g), maxRow |-> -1, minCol |-> Cols(g), maxCol |-> -1]
     ELSE [minRow |-> SetMin({rc[1] : rc \in filled}),
           maxRow |-> SetMax({rc[1] : rc \in filled}),
           minCol |-> SetMin({rc[2] : rc \in filled}),
           maxCol |-> SetMax({rc[2] : rc \in filled})]

\* A faulty trimGrid, for fault injection: the column loop of line 352
\* stopping before maxCol, the last column of the bounding box cut off.
TrimmedGridExclusive(g) ==
  LET b == TrimBounds(g)
  IN IF b.minRow <= b.maxRow /\ b.minCol <= b.maxCol
     THEN [r1 \in 1..(b.maxRow - b.minRow + 1) |->
             [c1 \in 1..(b.maxCol - b.minCol) |->
                Cell(g, (r1 - 1) + b.minRow, (c1 - 1) + b.minCol)]]
     ELSE g

TrimmedGrid(g) ==
  LET b == TrimBounds(g)
  IN IF b.minRow <= b.maxRow /\ b.minCol <= b.maxCol
     THEN [r1 \in 1..(b.maxRow - b.minRow + 1) |->
             [c1 \in 1..(b.maxCol - b.minCol + 1) |->
                Cell(g, (r1 - 1) + b.minRow, (c1 - 1) + b.minCol)]]
     ELSE g

\* A faulty trimGrid, for fault injection: the words' rows are shifted
\* (line 360) but their columns are not (line 361 left out).
TrimmedWordsRowOnly(g, placed) ==
  LET b == TrimBounds(g)
  IN IF b.minRow <= b.maxRow /\ b.minCol <= b.maxCol
     THEN [k \in DOMAIN placed |->
             [placed[k] EXCEPT !.row = @ - b.minRow]]
     ELSE placed

TrimmedWords(g, placed) ==
  LET b == TrimBounds(g)
  IN IF b.minRow <= b.maxRow /\ b.minCol <= b.maxCol
     THEN [k \in DOMAIN placed |->
             [placed[k] EXCEPT !.row = @ - b.minRow, !.col = @ - b.minCol]]
     ELSE placed

\* A faulty countFilledCells, for fault injection: the test of line 411 left
\* out, every cell of the grid counted.
CountFilledCellsNoTest(g) == Rows(g) * Cols(g)

CountFilledCells(g) == Cardinality(FilledCells(g))

ClueEntry(w) ==
  [number |-> w.clueNumber, word |-> w.word, clue |-> GenerateClue(w.word),
   row |-> w.row, col |-> w.col]

MapSeq(s, Op(_)) == [k \in DOMAIN s |-> Op(s[k])]

\* A faulty createPuzzleData, for fault injection: the filter of line 371
\* reused for the down words.
CreatePuzzleDataSameFilter(g, placed) ==
  LET isAcross(w) == w.isHorizontal
      acrossWords == SelectSeq(placed, isAcross)
      downWords == SelectSeq(placed, isAcross)
  IN [grid |-> g,
      words |-> placed,
      across |-> MapSeq(acrossWords, ClueEntry),
      down |-> MapSeq(downWords, ClueEntry),
      statistics |->
        [totalWords |-> Len(placed),
         acrossWords |-> Len(acrossWords),
         downWords |-> Len(downWords),
         gridRows |-> Rows(g),
         gridCols |-> Cols(g),
         totalCells |-> Rows(g) * Cols(g),
         filledCells |-> CountFilledCells(g)]]

CreatePuzzleData(g, placed) ==
  LET isAcross(w) == w.isHorizontal
      isDown(w) == ~w.isHorizontal
      acrossWords == SelectSeq(placed, isAcross)
      downWords == SelectSeq(placed, isDown)
  IN [grid |-> g,
      words |-> placed,
      across |-> MapSeq(acrossWords, ClueEntry),
      down |-> MapSeq(downWords, ClueEntry),
      statistics |->
        [totalWords |-> Len(placed),
         acrossWords |-> Len(acrossWords),
         downWords |-> Len(downWords),
         gridRows |-> Rows(g),
         gridCols |-> Cols(g),
         totalCells |-> Rows(g) * Cols(g),
         filledCells |-> CountFilledCells(g)]]

----------------------------------------------------------------------------
(* The engine and the calls made on it *)

Init ==
  /\ grid = <<>>
  /\ placedWords = <<>>
  /\ clueNumber = 1
  /\ input = Missing
  /\ words = <<>>
  /\ attempts = 0
  /\ maxAttempts = 0
  /\ pc = "new"
  /\ puzzle = NoPuzzle
  /\ error = NoError
  /\ prev = NoPuzzle

Returned == pc \in {"new", "done", "error"}

\* new CrosswordGenerator(): the constructor, lines 6-10.  The caller drops
\* what the old engine returned.
NewEngine ==
  /\ pc \in {"done", "error"}
  /\ grid' = <<>>
  /\ placedWords' = <<>>
  /\ clueNumber' = 1
  /\ pc' = "new"
  /\ input' = Missing
  /\ puzzle' = NoPuzzle
  /\ error' = NoError
  /\ words' = <<>>
  /\ attempts' = 0
  /\ maxAttempts' = 0
  /\ prev' = NoPuzzle

\* new CrosswordGenerator() as UIController.generatePuzzle does before every
\* call, the caller keeping the puzzle the old engine returned.
NewEngineKeeping ==
  /\ pc \in {"done", "error"}
  /\ grid' = <<>>
  /\ placedWords' = <<>>
  /\ clueNumber' = 1
  /\ pc' = "new"
  /\ prev' = puzzle
  /\ puzzle' = NoPuzzle
  /\ error' = NoError
  /\ words' = <<>>
  /\ attempts' = 0
  /\ maxAttempts' = 0
  /\ UNCHANGED input

\* A faulty generate, for fault injection: the guard of lines 18-20 moved
\* below the reset of lines 32-33, so that a throwing call clears the engine.
GenerateThrowsAfterReset(arg) ==
  /\ Returned
  /\ ~arg.defined \/ Len(arg.list) = 0
  /\ input' = arg
  /\ pc' = "error"
  /\ error' = "No words provided"
  /\ puzzle' = NoPuzzle
  /\ placedWords' = <<>>
  /\ clueNumber' = 1
  /\ UNCHANGED <<grid, words, attempts, maxAttempts>>

\* generate(words), lines 18-20: the guard throws
GenerateThrows(arg) ==
  /\ Returned
  /\ ~arg.defined \/ Len(arg.list) = 0
  /\ input' = arg
  /\ pc' = "error"
  /\ error' = "No words provided"
  /\ puzzle' = NoPuzzle
  /\ UNCHANGED <<grid, placedWords, clueNumber, words, attempts, maxAttempts>>

\* A faulty generate, for fault injection: the reset of lines 32-33 left
\* out, placed words and sequence number carried over from the call before.
GenerateStartNoReset(arg) ==
  /\ Returned
  /\ arg.defined
  /\ Len(arg.list) > 0
  /\ LET sortedWords == SortWordsByIntersectionPotential(arg.list)
         gridSize == CalculateGridSize(sortedWords)
     IN /\ grid' = InitializeGrid(gridSize.rows, gridSize.cols)
        /\ words' = sortedWords
  /\ UNCHANGED <<placedWords, clueNumber>>
  /\ input' = arg
  /\ pc' = "placeSeed"
  /\ error' = NoError
  /\ puzzle' = NoPuzzle
  /\ attempts' = 0
  /\ maxAttempts' = 0

\* generate(words), lines 23-33: sort, size and create the grid, reset
GenerateStart(arg) ==
  /\ Returned
  /\ arg.defined
  /\ Len(arg.list) > 0
  /\ LET sortedWords == SortWordsByIntersectionPotential(arg.list)
         gridSize == CalculateGridSize(sortedWords)
     IN /\ grid' = InitializeGrid(gridSize.rows, gridSize.cols)
        /\ words' = sortedWords
  /\ placedWords' = <<>>
  /\ clueNumber' = 1
  /\ input' = arg
  /\ pc' = "placeSeed"
  /\ error' = NoError
  /\ puzzle' = NoPuzzle
  /\ attempts' = 0
  /\ maxAttempts' = 0

\* A faulty placeWords, for fault injection: the budget of line 151 computed
\* before the words.shift() of line 147, the seed counted in it.
PlaceSeedBudgetBeforeShift ==
  /\ pc = "placeSeed"
  /\ LET firstWord == words[1]
         centerRow == Rows(grid) \div 2
         centerCol == (Cols(grid) - Len(firstWord)) \div 2
         r == PlaceWord(firstWord, centerRow, centerCol, TRUE)
     IN /\ grid' = r.grid
        /\ placedWords' = r.placedWords
        /\ clueNumber' = r.clueNumber
  /\ words' = Tail(words)
  /\ attempts' = 0
  /\ maxAttempts' = Len(words) * AttemptFactor
  /\ pc' = "loop"
  /\ UNCHANGED <<input, puzzle, error, prev>>

\* placeWords, lines 140-151: the first word goes to the centre
PlaceSeed ==
  /\ pc = "placeSeed"
  /\ LET firstWord == words[1]
         centerRow == Rows(grid) \div 2
         centerCol == (Cols(grid) - Len(firstWord)) \div 2
         r == PlaceWord(firstWord, centerRow, centerCol, TRUE)
     IN /\ grid' = r.grid
        /\ placedWords' = r.placedWords
        /\ clueNumber' = r.clueNumber
  /\ words' = Tail(words)
  /\ attempts' = 0
  /\ maxAttempts' = Len(Tail(words)) * AttemptFactor
  /\ pc' = "loop"
  /\ UNCHANGED <<input, puzzle, error, prev>>

\* A faulty tryPlaceWord, for fault injection: the direction of the sort of
\* line 181 left open, so that the first or the last of the positions
\* placeWord accepts may be the one committed.
TryPlaceWordEitherEnd(word) ==
  LET positions == TryOrder(word)
      accepted == {k \in DOMAIN positions :
                     PlaceWordAccepts(word, positions[k].row, positions[k].col,
                                      positions[k].isHorizontal)}
  IN IF accepted = {}
     THEN {[placed |-> FALSE, grid |-> grid, placedWords |-> placedWords,
            clueNumber |-> clueNumber]}
     ELSE {PlaceWord(word, positions[k].row, positions[k].col,
                     positions[k].isHorizontal) :
             k \in {SetMin(accepted), SetMax(accepted)}}

AttemptAnyPosition ==
  /\ pc = "loop"
  /\ Len(words) > 0
  /\ attempts < maxAttempts
  /\ \E r \in TryPlaceWordEitherEnd(words[1]) :
       /\ grid' = r.grid
       /\ placedWords' = r.placedWords
       /\ clueNumber' = r.clueNumber
       /\ words' = IF r.placed THEN Tail(words)
                   ELSE Append(Tail(words), words[1])
  /\ attempts' = attempts + 1
  /\ UNCHANGED <<input, maxAttempts, pc, puzzle, error, prev>>

\* A faulty loop of placeWords, for fault injection: the words.push of line 160
\* left out, a word that found no position dropped from the queue.
AttemptDropsFailed ==
  /\ pc = "loop"
  /\ Len(words) > 0
  /\ attempts < maxAttempts
  /\ LET word == words[1]
         r == TryPlaceWord(word)
     IN /\ grid' = r.grid
        /\ placedWords' = r.placedWords
        /\ clueNumber' = r.clueNumber
        /\ words' = Tail(words)
  /\ attempts' = attempts + 1
  /\ UNCHANGED <<input, maxAttempts, pc, puzzle, error, prev>>

\* placeWords, lines 153-165: one iteration of the while loop
Attempt ==
  /\ pc = "loop"
  /\ Len(words) > 0
  /\ attempts < maxAttempts
  /\ LET word == words[1]
         r == TryPlaceWord(word)
     IN /\ grid' = r.grid
        /\ placedWords' = r.placedWords
        /\ clueNumber' = r.clueNumber
        /\ words' = IF r.placed THEN Tail(words) ELSE Append(Tail(words), word)
  /\ attempts' = attempts + 1
  /\ UNCHANGED <<input, maxAttempts, pc, puzzle, error, prev>>

\* generate, line 39, once the while loop has ended
TrimGrid ==
  /\ pc = "loop"
  /\ ~(Len(words) > 0 /\ attempts < maxAttempts)
  /\ grid' = TrimmedGrid(grid)
  /\ placedWords' = TrimmedWords(grid, placedWords)
  /\ pc' = "assemble"
  /\ UNCHANGED <<clueNumber, input, words, attempts, maxAttempts, puzzle, error,
                 prev>>

\* generate, lines 42-44
ReturnPuzzle ==
  /\ pc = "assemble"
  /\ puzzle' = CreatePuzzleData(grid, placedWords)
  /\ pc' = "done"
  /\ UNCHANGED <<grid, placedWords, clueNumber, input, words, attempts,
                 maxAttempts, error, prev>>

\* A call of generate on the engine at hand, new or used.
Generate ==
  /\ \E arg \in Inputs : GenerateThrows(arg) \/ GenerateStart(arg)
  /\ UNCHANGED prev

Next ==
  \/ NewEngine
  \/ Generate
  \/ PlaceSeed
  \/ Attempt
  \/ TrimGrid
  \/ ReturnPuzzle

Spec == Init /\ [][Next]_vars

\* Every call on an engine of its own, the caller comparing what two
\* successive calls with the same word list return.
TwinVocabulary == Vocabulary \ {WordLong}
TwinInputs == {a \in Inputs : Range(a.list) \subseteq TwinVocabulary}

GenerateOnFresh ==
  /\ pc = "new"
  /\ \E arg \in TwinInputs :
       /\ GenerateThrows(arg) \/ GenerateStart(arg)
       /\ prev' = IF arg = input THEN prev ELSE NoPuzzle

NextTwin ==
  \/ NewEngineKeeping
  \/ GenerateOnFresh
  \/ PlaceSeed
  \/ Attempt
  \/ TrimGrid
  \/ ReturnPuzzle

SpecTwin == Init /\ [][NextTwin]_vars

\* The lists of at most n distinct words over a vocabulary V.
RECURSIVE ListsOver(_, _)
ListsOver(V, n) ==
  IF n = 0 THEN {<<>>}
  ELSE LET shorter == ListsOver(V, n - 1)
       IN shorter \cup
          UNION {{Append(l, w) : w \in V \ Range(l)} :
                   l \in {s \in shorter : Len(s) = n - 1}}

\* generate, line 23, on its own: the word list passed in and the sorted copy
\* sortWordsByIntersectionPotential returns for it.
WordAxa == <<"a", "x", "a">>
WordAzza == <<"a", "z", "z", "a">>
SortVocabulary == {WordA, WordAt, WordCat, WordAxa, WordAzza}
SortInputs == {Arg(l) : l \in ListsOver(SortVocabulary, MaxWords) \ {<<>>}}

InitSort ==
  /\ grid = <<>>
  /\ placedWords = <<>>
  /\ clueNumber = 1
  /\ input \in SortInputs
  /\ words = <<>>
  /\ attempts = 0
  /\ maxAttempts = 0
  /\ pc = "new"
  /\ puzzle = NoPuzzle
  /\ error = NoError
  /\ prev = NoPuzzle

SortWords ==
  /\ pc = "new"
  /\ words' = SortWordsByIntersectionPotential(input.list)
  /\ pc' = "sorted"
  /\ UNCHANGED <<grid, placedWords, clueNumber, input, attempts, maxAttempts,
                 puzzle, error, prev>>

NextSort == SortWords

SpecSort == InitSort /\ [][NextSort]_vars

\* Calls of generate with short words, on the small grids they get: lists of
\* one-letter words and a two-letter word, and lists of three-letter words
\* that cross one another.
WordB == <<"b">>
WordC == <<"c">>
WordAat == <<"a", "a", "t">>
WordEea == <<"e", "e", "a">>
WordTat == <<"t", "a", "t">>
WordTet == <<"t", "e", "t">>
LetterVocabulary == {WordA, WordB, WordC, WordAt}
CrossingVocabulary == {WordAat, WordEea, WordTat, WordTet}
SmallInputs ==
  {Arg(l) : l \in (ListsOver(LetterVocabulary, MaxWords)
                     \cup ListsOver(CrossingVocabulary,
                                    Cardinality(CrossingVocabulary)))
                  \ {<<>>}}

GenerateSmall ==
  /\ \E arg \in SmallInputs : GenerateStart(arg)
  /\ UNCHANGED prev

NextSmall ==
  \/ NewEngine
  \/ GenerateSmall
  \/ PlaceSeed
  \/ Attempt
  \/ TrimGrid
  \/ ReturnPuzzle

SpecSmall == Init /\ [][NextSmall]_vars

\* One engine used for call after call, never replaced.  The caller keeps,
\* in prev, the puzzle the first call returned, when the engine was fresh,
\* and the word list of that call; of the call before the current one it
\* keeps how it ended and whether it had the current word list.
ReuseVocabulary == {WordA, WordAt, WordCat}
ReuseInputs ==
  {Arg(l) : l \in ListsOver(ReuseVocabulary, MaxWords)} \cup {Missing}

CallerNotes(arg) ==
  IF prev = NoPuzzle
  THEN [first |-> TRUE, fresh |-> NoPuzzle, list |-> <<>>,
        before |-> "new", same |-> FALSE]
  ELSE IF prev.first
  THEN [first |-> FALSE, fresh |-> puzzle, list |-> input.list,
        before |-> pc, same |-> arg = input]
  ELSE [prev EXCEPT !.before = pc, !.same = (arg = input)]

GenerateOnUsed ==
  \E arg \in ReuseInputs :
    /\ GenerateThrows(arg) \/ GenerateStart(arg)
    /\ prev' = CallerNotes(arg)

NextReuse ==
  \/ GenerateOnUsed
  \/ PlaceSeed
  \/ Attempt
  \/ TrimGrid
  \/ ReturnPuzzle

SpecReuse == Init /\ [][NextReuse]_vars

\* The page: UIController calling generate from its click handlers.  prev is
\* the controller and its elements: wordInput is Utils.parseWords of the text
\* area, clueInputSection tells whether the section holding the Regenerate
\* button is displayed, handler names the handler that is waiting for
\* generate, alert tells whether the last handler called showError.
UIWordLists == ListsOver(ReuseVocabulary, MaxWords)

\* app.js fills the text area with sample words before the first event.
SampleWords == <<WordCat, WordAt>>

InitUI ==
  /\ grid = <<>>
  /\ placedWords = <<>>
  /\ clueNumber = 1
  /\ input = Missing
  /\ words = <<>>
  /\ attempts = 0
  /\ maxAttempts = 0
  /\ pc = "new"
  /\ puzzle = NoPuzzle
  /\ error = NoError
  /\ prev = [wordInput |-> SampleWords, clueInputSection |-> FALSE,
             currentPuzzle |-> NoPuzzle, handler |-> "none", alert |-> FALSE]

Idle == prev.handler = "none"

Engine == <<grid, placedWords, clueNumber, input, words, attempts, maxAttempts,
            pc, puzzle, error>>

\* The user edits the text area.
EditWords ==
  /\ Idle
  /\ \E l \in UIWordLists : prev' = [prev EXCEPT !.wordInput = l]
  /\ UNCHANGED Engine

\* generatePuzzle, lines 466-467: a new engine, and generate(words) on it.
GeneratePuzzleCall(list) ==
  \/ /\ Len(list) = 0
     /\ grid' = <<>>
     /\ placedWords' = <<>>
     /\ clueNumber' = 1
     /\ words' = <<>>
     /\ attempts' = 0
     /\ maxAttempts' = 0
     /\ input' = Arg(list)
     /\ pc' = "error"
     /\ error' = "No words provided"
     /\ puzzle' = NoPuzzle
  \/ GenerateStart(Arg(list))

\* handleGenerate, lines 53-68: one of the three showError returns.
HandleGenerateRejects ==
  /\ Idle
  /\ Len(prev.wordInput) < 2
  /\ prev' = [prev EXCEPT !.alert = TRUE]
  /\ UNCHANGED Engine

\* handleGenerate, line 71: the call of generatePuzzle.
HandleGenerateCalls ==
  /\ Idle
  /\ ~(Len(prev.wordInput) < 2)
  /\ GeneratePuzzleCall(prev.wordInput)
  /\ prev' = [prev EXCEPT !.handler = "generate", !.alert = FALSE]

\* handleRegenerate, lines 102-104; its button is inside clueInputSection.
HandleRegenerate ==
  /\ Idle
  /\ prev.clueInputSection
  /\ GeneratePuzzleCall(prev.wordInput)
  /\ prev' = [prev EXCEPT !.handler = "regenerate", !.alert = FALSE]

\* handleClear, with hidePuzzle and hideClueInputs.
HandleClear ==
  /\ Idle
  /\ prev' = [wordInput |-> <<>>, clueInputSection |-> FALSE,
              currentPuzzle |-> NoPuzzle, handler |-> "none", alert |-> FALSE]
  /\ UNCHANGED Engine

\* generate has returned: the rest of generatePuzzle, lines 467-475, and for
\* handleGenerate the showClueInputs of line 73.
HandlerReturns ==
  /\ ~Idle
  /\ pc = "done"
  /\ prev' = [prev EXCEPT !.currentPuzzle = puzzle,
                          !.clueInputSection = (@ \/ prev.handler = "generate"),
                          !.handler = "none"]
  /\ UNCHANGED Engine

\* generate has thrown: handleGenerate catches and calls showError (lines
\* 74-76), handleRegenerate lets the error go.
HandlerThrows ==
  /\ ~Idle
  /\ pc = "error"
  /\ prev' = [prev EXCEPT !.alert = (prev.handler = "generate"),
                          !.handler = "none"]
  /\ UNCHANGED Engine

NextUI ==
  \/ EditWords
  \/ HandleGenerateRejects
  \/ HandleGenerateCalls
  \/ HandleRegenerate
  \/ HandleClear
  \/ HandlerReturns
  \/ HandlerThrows
  \/ PlaceSeed
  \/ Attempt
  \/ TrimGrid
  \/ ReturnPuzzle

SpecUI == InitUI /\ [][NextUI]_vars

----------------------------------------------------------------------------
(* Properties *)

WordCells(w) ==
  {<<CellRow(w.row, i, w.isHorizontal), CellCol(w.col, i, w.isHorizontal)>> :
     i \in 0..(Len(w.word) - 1)}

LetterAt(w, rc) ==
  w.word[(IF w.isHorizontal THEN rc[2] - w.col ELSE rc[1] - w.row) + 1]

SharedCells(placed) ==
  {rc \in UNION {WordCells(placed[k]) : k \in DOMAIN placed} :
     \E k1, k2 \in DOMAIN placed :
       k1 # k2 /\ rc \in WordCells(placed[k1]) /\ rc \in WordCells(placed[k2])}

Letters(word) == {word[i] : i \in DOMAIN word}

\* The word a step has just committed, and whether the step committed one
CommitStep == Len(placedWords') = Len(placedWords) + 1
Committed == placedWords'[Len(placedWords')]

\* C1: in the puzzle generate returns, the grid is the grid re-derived from the
\* placed words: every cell of a placed word holds that word's letter, no two
\* placed words disagree on a shared cell, and every other cell is empty.
C1_GridMatchesPlacedWords ==
  pc = "done" =>
    LET g == puzzle.grid
        placed == puzzle.words
    IN /\ \A k \in DOMAIN placed : \A rc \in WordCells(placed[k]) :
            /\ IsValidPosition(rc[1], rc[2], g)
            /\ Cell(g, rc[1], rc[2]) = LetterAt(placed[k], rc)
       /\ \A k1, k2 \in DOMAIN placed :
            \A rc \in WordCells(placed[k1]) \cap WordCells(placed[k2]) :
              LetterAt(placed[k1], rc) = LetterAt(placed[k2], rc)
       /\ \A rc \in FilledCells(g) :
            \E k \in DOMAIN placed : rc \in WordCells(placed[k])

\* A returned puzzle of three words in which two words cross and whose grid
\* was trimmed on both axes.
C1_Witness ==
  /\ pc = "done"
  /\ Len(puzzle.words) = 3
  /\ SharedCells(puzzle.words) # {}
  /\ \E k \in DOMAIN puzzle.words : ~puzzle.words[k].isHorizontal
  /\ Rows(puzzle.grid) < CalculateGridSize(input.list).rows
  /\ Cols(puzzle.grid) < CalculateGridSize(input.list).cols

\* C2: a word committed after the seed has, at the moment of the commit, at
\* least one of its cells already filled with its own letter.
C2_CommitOverlaps ==
  [][(pc = "loop" /\ CommitStep) =>
       \E rc \in WordCells(Committed) :
         Cell(grid, rc[1], rc[2]) = LetterAt(Committed, rc)]_vars

\* The maximal runs of two or more filled cells of a row (of a column), as
\* <<row, first column, last column>> (<<column, first row, last row>>).
HorizontalRuns(g) ==
  {run \in (0..(Rows(g) - 1)) \X (0..(Cols(g) - 1)) \X (0..(Cols(g) - 1)) :
     /\ run[2] < run[3]
     /\ \A c \in run[2]..run[3] : Cell(g, run[1], c) # Null
     /\ run[2] = 0 \/ Cell(g, run[1], run[2] - 1) = Null
     /\ run[3] = Cols(g) - 1 \/ Cell(g, run[1], run[3] + 1) = Null}

VerticalRuns(g) ==
  {run \in (0..(Cols(g) - 1)) \X (0..(Rows(g) - 1)) \X (0..(Rows(g) - 1)) :
     /\ run[2] < run[3]
     /\ \A r \in run[2]..run[3] : Cell(g, r, run[1]) # Null
     /\ run[2] = 0 \/ Cell(g, run[2] - 1, run[1]) = Null
     /\ run[3] = Rows(g) - 1 \/ Cell(g, run[3] + 1, run[1]) = Null}

\* C3: after every commit, every maximal horizontal or vertical run of two or
\* more filled cells is exactly the cells of one placed word of that
\* orientation.
C3_RunsAreWords ==
  pc = "loop" =>
    /\ \A run \in HorizontalRuns(grid) :
         \E k \in DOMAIN placedWords :
           /\ placedWords[k].isHorizontal
           /\ placedWords[k].row = run[1]
           /\ placedWords[k].col = run[2]
           /\ placedWords[k].col + Len(placedWords[k].word) - 1 = run[3]
    /\ \A run \in VerticalRuns(grid) :
         \E k \in DOMAIN placedWords :
           /\ ~placedWords[k].isHorizontal
           /\ placedWords[k].col = run[1]
           /\ placedWords[k].row = run[2]
           /\ placedWords[k].row + Len(placedWords[k].word) - 1 = run[3]

\* A call in progress can take a step (the guards of PlaceSeed, Attempt,
\* TrimGrid and ReturnPuzzle), and the number of steps it can still take
CanStep ==
  \/ pc = "placeSeed" /\ Len(words) > 0 /\ Rows(grid) > 0
  \/ pc = "loop" /\ Rows(grid) > 0
  \/ pc = "assemble" /\ Rows(grid) > 0

CallMeasure ==
  CASE pc = "placeSeed" -> AttemptFactor * Len(words) + 3
    [] pc = "loop" -> (maxAttempts - attempts) + 2
    [] pc = "assemble" -> 1
    [] OTHER -> 0

\* C4: a call on a non-empty list of n words returns a puzzle, its loop making
\* at most 100 * (n - 1) attempts, the budget being fixed from the words left
\* after the seed and every iteration, placing or not, counting as one.  The
\* call terminates: while it runs a step can be taken, and every step lowers
\* the number of steps left.
C4_BoundedAttempts ==
  /\ [](pc \in {"loop", "assemble", "done"} =>
          /\ maxAttempts = AttemptFactor * (Len(input.list) - 1)
          /\ attempts <= maxAttempts)
  /\ [][(pc = "loop" /\ pc' = "loop") =>
          (attempts' = attempts + 1 /\ maxAttempts' = maxAttempts)]_vars
  /\ [](~Returned => (CallMeasure > 0 /\ CanStep))
  /\ [][~Returned => CallMeasure' < CallMeasure]_vars
  /\ [](pc = "done" => puzzle # NoPuzzle)

\* A call that ended with its budget used up and a word left over.
C4_Witness ==
  /\ pc = "done"
  /\ maxAttempts > 0
  /\ attempts = maxAttempts
  /\ Len(words) > 0

\* C5: generate with an empty or missing list throws "No words provided" and
\* leaves the grid, the placed words and the counter as they were; no call
\* with such a list gets past the guard.
C5_EmptyInputThrows ==
  /\ [][pc' = "error" =>
          /\ grid' = grid
          /\ placedWords' = placedWords
          /\ clueNumber' = clueNumber
          /\ error' = "No words provided"
          /\ puzzle' = NoPuzzle]_vars
  /\ [](pc \notin {"new", "error"} => input.defined /\ Len(input.list) > 0)
  /\ [](pc = "error" => ~input.defined \/ Len(input.list) = 0)

\* The call threw on an engine that has produced a puzzle before.
C5_Witness ==
  /\ pc = "error"
  /\ Len(placedWords) > 1
  /\ Rows(grid) > 0

SortedInput == SortWordsByIntersectionPotential(input.list)

\* C6: the first word in sorted order is placed: it is the first placed word,
\* with sequence number 1, horizontal, at row floor(rows / 2) and column
\* floor((cols - length) / 2) of the initial grid.
C6_SeedPlaced ==
  pc = "loop" =>
    /\ Len(placedWords) >= 1
    /\ placedWords[1] =
         [word |-> SortedInput[1],
          row |-> Rows(grid) \div 2,
          col |-> (Cols(grid) - Len(SortedInput[1])) \div 2,
          isHorizontal |-> TRUE,
          clueNumber |-> 1]

\* C7: for two words that share no letter only the seed is placed: the other
\* word is not committed, the budget is used up and totalWords is 1.
C7_DisjointWordsSeedOnly ==
  (/\ pc = "done"
   /\ Len(input.list) = 2
   /\ Letters(input.list[1]) \cap Letters(input.list[2]) = {}) =>
    /\ puzzle.statistics.totalWords = 1
    /\ attempts = maxAttempts
    /\ \A k \in DOMAIN puzzle.words : puzzle.words[k].word = SortedInput[1]

\* C8: in a returned puzzle the first and last row and the first and last
\* column of the grid each hold a non-empty cell.
C8_BordersFilled ==
  pc = "done" =>
    LET g == puzzle.grid
    IN /\ \E c \in 0..(Cols(g) - 1) : Cell(g, 0, c) # Null
       /\ \E c \in 0..(Cols(g) - 1) : Cell(g, Rows(g) - 1, c) # Null
       /\ \E r \in 0..(Rows(g) - 1) : Cell(g, r, 0) # Null
       /\ \E r \in 0..(Rows(g) - 1) : Cell(g, r, Cols(g) - 1) # Null

C10_SequenceNumbers ==
  /\ \A i \in DOMAIN placedWords : placedWords[i].clueNumber = i
  /\ clueNumber = Len(placedWords) + 1
  /\ pc = "done" =>
       /\ {puzzle.across[k].number : k \in DOMAIN puzzle.across}
            \cup {puzzle.down[k].number : k \in DOMAIN puzzle.down}
          = 1..puzzle.statistics.totalWords
       /\ Len(puzzle.across) + Len(puzzle.down) = puzzle.statistics.totalWords

\* A returned puzzle with across and down entries, three in all.
C10_Witness ==
  /\ pc = "done"
  /\ puzzle.statistics.totalWords = 3
  /\ Len(puzzle.across) > 0
  /\ Len(puzzle.down) > 0

\* The longest word of the list passed to generate.
LongestInput == MaxLength(input.list)

\* C11: the returned puzzle never has more placed words than input words, and
\* whenever it has fewer the placement loop ended with its attempt counter
\* equal to the budget.
C11_ShortfallOnlyFromBudget ==
  pc = "done" =>
    /\ puzzle.statistics.totalWords <= Len(input.list)
    /\ puzzle.statistics.totalWords < Len(input.list) => attempts = maxAttempts

\* C12: the grid of the returned puzzle is at least as large as the longest
\* input word: max(gridRows, gridCols) >= its length.
C12_GridHoldsLongestWord ==
  pc = "done" =>
    Max(puzzle.statistics.gridRows, puzzle.statistics.gridCols) >= LongestInput

\* C15: for a single-word input, a one-letter word included, that word is
\* placed as the seed: the returned puzzle has totalWords = 1 and a grid of
\* exactly 1 row by length-of-word columns.
C15_SingleWordPlaced ==
  (pc = "done" /\ Len(input.list) = 1) =>
    /\ puzzle.statistics.totalWords = 1
    /\ puzzle.words[1].word = input.list[1]
    /\ puzzle.statistics.gridRows = 1
    /\ puzzle.statistics.gridCols = Len(input.list[1])

\* C16: the words are sorted by length, longest first, before placement: the
\* order in which they are attempted is non-increasing in length, so the
\* seed is a longest input word.
C16_SortedByLength ==
  pc = "placeSeed" =>
    /\ \A i, j \in DOMAIN words : i < j => Len(words[i]) >= Len(words[j])
    /\ Len(words[1]) = LongestInput

\* The entries of a clue list that carry the number, text and coordinates of
\* a placed word.
EntriesOf(list, w) ==
  {i \in DOMAIN list :
     /\ list[i].number = w.clueNumber
     /\ list[i].word = w.word
     /\ list[i].row = w.row
     /\ list[i].col = w.col}

\* C13: in the returned puzzle the across and down lists partition the placed
\* words by orientation: every placed word is in exactly one of the two
\* lists, across iff horizontal, with its sequence number and its post-trim
\* row and col, and totalWords = acrossWords + downWords.
C13_AcrossDownPartition ==
  pc = "done" =>
    /\ puzzle.words = placedWords
    /\ \A k \in DOMAIN puzzle.words :
         LET w == puzzle.words[k]
         IN IF w.isHorizontal
            THEN /\ Cardinality(EntriesOf(puzzle.across, w)) = 1
                 /\ \A i \in DOMAIN puzzle.down :
                      puzzle.down[i].number # w.clueNumber
            ELSE /\ Cardinality(EntriesOf(puzzle.down, w)) = 1
                 /\ \A i \in DOMAIN puzzle.across :
                      puzzle.across[i].number # w.clueNumber
    /\ Len(puzzle.across) + Len(puzzle.down) = Len(puzzle.words)
    /\ puzzle.statistics.acrossWords = Len(puzzle.across)
    /\ puzzle.statistics.downWords = Len(puzzle.down)
    /\ puzzle.statistics.totalWords
         = puzzle.statistics.acrossWords + puzzle.statistics.downWords

\* A returned puzzle with two across words and a down word, the grid trimmed.
C13_Witness ==
  /\ pc = "done"
  /\ Len(puzzle.across) = 2
  /\ Len(puzzle.down) = 1
  /\ Rows(puzzle.grid) < CalculateGridSize(input.list).rows

\* C14: in the returned puzzle filledCells is the number of distinct cells the
\* placed words cover on the trimmed grid, a shared cell counted once, and
\* totalCells is gridRows x gridCols of that grid.
C14_FilledCellsCounted ==
  pc = "done" =>
    /\ puzzle.statistics.filledCells
         = Cardinality(UNION {WordCells(puzzle.words[k]) :
                                k \in DOMAIN puzzle.words})
    /\ puzzle.statistics.gridRows = Rows(puzzle.grid)
    /\ puzzle.statistics.gridCols = Cols(puzzle.grid)
    /\ puzzle.statistics.totalCells
         = puzzle.statistics.gridRows * puzzle.statistics.gridCols

\* A returned puzzle in which two words share a cell and some cell of the
\* trimmed grid is empty.
C14_Witness ==
  /\ pc = "done"
  /\ SharedCells(puzzle.words) # {}
  /\ puzzle.statistics.filledCells < puzzle.statistics.totalCells
  /\ Len(puzzle.words) = 3
  /\ puzzle.statistics.filledCells > 0

\* The grid after a step is the grid before it with exactly the cells of w
\* written.
OnlyWordWritten(w) ==
  /\ Rows(grid') = Rows(grid)
  /\ Cols(grid') = Cols(grid)
  /\ \A rc \in WordCells(w) : IsValidPosition(rc[1], rc[2], grid)
  /\ \A r \in 0..(Rows(grid) - 1) : \A c \in 0..(Cols(grid) - 1) :
       Cell(grid', r, c) = IF <<r, c>> \in WordCells(w)
                           THEN LetterAt(w, <<r, c>>)
                           ELSE Cell(grid, r, c)

PassingPositions(word) ==
  LET search == FindValidPositions(word, grid)
  IN {k \in DOMAIN search :
        HasValidWordBoundaries(word, search[k].row, search[k].col,
                               search[k].isHorizontal, grid)}

PositionScoreAt(word, p) ==
  CalculatePositionScore(word, p.row, p.col, p.isHorizontal, grid)

\* a > b and a = b on position scores as JavaScript compares them: false
\* when either is NaN.
ScoreGreater(a, b) == ~a.nan /\ ~b.nan /\ a.num > b.num
ScoreEqual(a, b) == ~a.nan /\ ~b.nan /\ a.num = b.num

\* C18: when tryPlaceWord commits a word, the committed position passes the
\* fit test and the boundary rule on the current grid, no passing position
\* has a greater score, and among the passing positions of equal score it is
\* the first in search order; if no position passes, nothing is committed.
C18_BestPositionCommitted ==
  [][(pc = "loop" /\ pc' = "loop") =>
       LET word == words[1]
           search == FindValidPositions(word, grid)
           passing == PassingPositions(word)
       IN IF passing = {}
          THEN ~CommitStep
          ELSE /\ CommitStep
               /\ \E k \in passing :
                    /\ search[k].row = Committed.row
                    /\ search[k].col = Committed.col
                    /\ search[k].isHorizontal = Committed.isHorizontal
                    /\ \A m \in passing :
                         /\ ~ScoreGreater(PositionScoreAt(word, search[m]),
                                          PositionScoreAt(word, search[k]))
                         /\ ScoreEqual(PositionScoreAt(word, search[m]),
                                       PositionScoreAt(word, search[k]))
                              => k <= m]_vars

\* The perpendicular neighbours of a cell of a word: above and below for a
\* horizontal word, left and right for a vertical one.
PerpendicularNeighbours(rc, isHorizontal) ==
  IF isHorizontal
  THEN {<<rc[1] - 1, rc[2]>>, <<rc[1] + 1, rc[2]>>}
  ELSE {<<rc[1], rc[2] - 1>>, <<rc[1], rc[2] + 1>>}

\* The cell before a neighbour in the scan: the one above the neighbour of a
\* horizontal word, the one left of the neighbour of a vertical word.
CellBefore(n, isHorizontal) ==
  IF isHorizontal THEN <<n[1] - 1, n[2]>> ELSE <<n[1], n[2] - 1>>

FilledAt(g, rc) == IsValidPosition(rc[1], rc[2], g) /\ Cell(g, rc[1], rc[2]) # Null

\* C19: every committed non-seed placement satisfies the perpendicular-
\* neighbour rule: for each of its cells that was empty before the commit,
\* every filled perpendicular neighbour ended a run of at least two filled
\* cells scanned backward (upward, resp. leftward) from it.
C19_NeighbourRule ==
  [][(pc = "loop" /\ CommitStep) =>
       \A rc \in WordCells(Committed) :
         Cell(grid, rc[1], rc[2]) = Null =>
           \A n \in PerpendicularNeighbours(rc, Committed.isHorizontal) :
             FilledAt(grid, n) =>
               FilledAt(grid, CellBefore(n, Committed.isHorizontal))]_vars

\* The word committed last took a cell that no earlier word covers and that
\* has a filled perpendicular neighbour.
C19_Witness ==
  /\ pc = "loop"
  /\ Len(placedWords) >= 2
  /\ LET w == placedWords[Len(placedWords)]
     IN \E rc \in WordCells(w) :
          /\ \A k \in 1..(Len(placedWords) - 1) : rc \notin WordCells(placedWords[k])
          /\ \E n \in PerpendicularNeighbours(rc, w.isHorizontal) :
               FilledAt(grid, n)

\* The cells of a set reachable from the cells of seen through orthogonal
\* neighbours inside the set.
RECURSIVE ReachableCells(_, _)
ReachableCells(cells, seen) ==
  LET more == {rc \in cells \ seen :
                 \E s \in seen : Abs(rc[1] - s[1]) + Abs(rc[2] - s[2]) = 1}
  IN IF more = {} THEN seen ELSE ReachableCells(cells, seen \cup more)

Connected(cells) ==
  cells = {} \/ ReachableCells(cells, {CHOOSE rc \in cells : TRUE}) = cells

\* C20: a word always connects to the puzzle: a word committed after the seed
\* step has a cell that was already filled or an empty cell with a filled
\* perpendicular neighbour, and after every commit the filled cells of the
\* grid are orthogonally connected.
C20_WordsConnect ==
  /\ [][(pc = "loop" /\ CommitStep) =>
          \E rc \in WordCells(Committed) :
            \/ Cell(grid, rc[1], rc[2]) # Null
            \/ \E n \in PerpendicularNeighbours(rc, Committed.isHorizontal) :
                 FilledAt(grid, n)]_vars
  /\ [](pc = "loop" => Connected(FilledCells(grid)))

\* After every commit the filled cells of the grid are connected.
GridConnected == pc = "loop" => Connected(FilledCells(grid))

\* a > b and a = b on word scores (num / den) as JavaScript compares them:
\* false when either is NaN.
WordScoreGreater(a, b) ==
  ~a.nan /\ ~b.nan /\ a.num * b.den > b.num * a.den
WordScoreEqual(a, b) ==
  ~a.nan /\ ~b.nan /\ a.num * b.den = b.num * a.den

\* C21: the order sortWordsByIntersectionPotential returns is by descending
\* intersection score, ties broken by descending length: for i < j the score
\* of the j-th word is not greater than that of the i-th, and when the two
\* are equal the i-th word is at least as long.
C21_SortedByScore ==
  pc = "sorted" =>
    \A i, j \in DOMAIN words :
      i < j =>
        LET si == CalculateWordIntersectionScore(words[i])
            sj == CalculateWordIntersectionScore(words[j])
        IN /\ ~WordScoreGreater(sj, si)
           /\ WordScoreEqual(si, sj) => Len(words[i]) >= Len(words[j])

\* C22: an iteration of the placement loop attempts the head of the queue and
\* nothing else.  A commit is a commit of the head, which leaves the queue; a
\* head that found no position moves to the back, grid and placed words as
\* they were; the other queued words keep their order, and the attempt counter
\* grows by exactly 1.
C22_HeadOnlyAttempted ==
  [][(pc = "loop" /\ pc' = "loop") =>
       /\ attempts' = attempts + 1
       /\ IF CommitStep
          THEN /\ Committed.word = words[1]
               /\ SubSeq(placedWords', 1, Len(placedWords)) = placedWords
               /\ words' = Tail(words)
          ELSE /\ placedWords' = placedWords
               /\ grid' = grid
               /\ words' = Append(Tail(words), words[1])]_vars

\* One attempt after the seed, two words having been queued: the head found
\* no position and is now behind the other word.
C22_Witness ==
  /\ pc = "loop"
  /\ attempts = 1
  /\ Len(placedWords) = 1
  /\ Len(SortedInput) = 3
  /\ words = <<SortedInput[3], SortedInput[2]>>

\* C23: while generate runs on a list of distinct words, every input word is
\* in exactly one of the placed-word list and the work queue: none is lost,
\* none is placed twice, none is both placed and still queued.
PlacedCount(w) == Cardinality({k \in DOMAIN placedWords : placedWords[k].word = w})
QueuedCount(w) == Cardinality({k \in DOMAIN words : words[k] = w})

C23_WordsAccountedFor ==
  pc \in {"placeSeed", "loop", "assemble"} =>
    \A w \in Range(input.list) : PlacedCount(w) + QueuedCount(w) = 1

\* C24: between the creation of the grid and its trimming, no step changes the
\* number of rows or the number of columns, and no step clears a cell that
\* holds a letter or changes its letter: a placement only fills empty cells.
C24_GridOnlyExtended ==
  [][(pc \in {"placeSeed", "loop"} /\ pc' = "loop") =>
       /\ Rows(grid') = Rows(grid)
       /\ \A r \in DOMAIN grid : Len(grid'[r]) = Len(grid[r])
       /\ \A rc \in FilledCells(grid) : Cell(grid', rc[1], rc[2]) = Cell(grid, rc[1], rc[2])]_vars

\* Three words on the grid before it is trimmed, a later word laid across a
\* letter of an earlier one.
C24_Witness ==
  /\ pc = "loop"
  /\ Len(placedWords) = 3
  /\ SharedCells(placedWords) # {}
  /\ Cardinality(FilledCells(grid)) > Len(placedWords[1].word)

\* The cells of the grid a call reads or writes, as <<row, col>> pairs.
\* canPlaceWord, lines 49-63: after the bounds check of lines 42-46 the loop
\* reads the word's cells up to the first one that holds another letter.
CanPlaceWordReads(word, row, col, isHorizontal, g) ==
  LET wordLength == Len(word)
      R(i) == CellRow(row, i, isHorizontal)
      C(i) == CellCol(col, i, isHorizontal)
      stops == {i \in 0..(wordLength - 1) :
                  GridAt(g, R(i), C(i)) \notin {Null, word[i + 1]}}
      last == IF stops = {} THEN wordLength - 1 ELSE SetMin(stops)
  IN IF isHorizontal /\ col + wordLength > Cols(g) THEN {}
     ELSE IF ~isHorizontal /\ row + wordLength > Rows(g) THEN {}
     ELSE {<<R(i), C(i)>> : i \in 0..last}

\* hasWordEndingAt: the while loop reads (row, col) and the cells before it,
\* up to the first empty one, while the index is at least 0.
HasWordEndingAtReads(row, col, g, isHorizontal) ==
  LET n == RunLengthBack(row, col, g, isHorizontal)
  IN IF isHorizontal
     THEN {<<row, c>> : c \in Max(col - n, 0)..col}
     ELSE {<<r, col>> : r \in Max(row - n, 0)..row}

\* hasValidWordBoundaries on an empty cell, lines 97-133: a neighbour is read
\* only behind the isValidPosition test; the second is not reached when the
\* first makes the function return.
NeighbourReads(currentRow, currentCol, isHorizontal, g) ==
  LET adj == GetAdjacentPositions(currentRow, currentCol, isHorizontal)
      valid(k) == IsValidPosition(adj[k][1], adj[k][2], g)
      filled(k) == valid(k) /\ Cell(g, adj[k][1], adj[k][2]) # Null
      reads(k) == IF ~valid(k) THEN {}
                  ELSE {adj[k]} \cup
                       (IF filled(k)
                        THEN HasWordEndingAtReads(adj[k][1], adj[k][2], g,
                                                  ~isHorizontal)
                        ELSE {})
      returns == filled(1) /\ ~HasWordEndingAt(adj[1][1], adj[1][2], g,
                                               ~isHorizontal)
  IN reads(1) \cup (IF returns THEN {} ELSE reads(2))

\* hasValidWordBoundaries, called with a position canPlaceWord let through:
\* the loop runs up to the first index that makes it return false.
HasValidWordBoundariesReads(word, row, col, isHorizontal, g) ==
  LET wordLength == Len(word)
      R(i) == CellRow(row, i, isHorizontal)
      C(i) == CellCol(col, i, isHorizontal)
      filled(i) == Cell(g, R(i), C(i)) # Null
      rejects(i) == IF filled(i) THEN Cell(g, R(i), C(i)) # word[i + 1]
                    ELSE NeighbourRejects(R(i), C(i), isHorizontal, g)
      stops == {i \in 0..(wordLength - 1) : rejects(i)}
      last == IF stops = {} THEN wordLength - 1 ELSE SetMin(stops)
  IN UNION {{<<R(i), C(i)>>} \cup
              (IF filled(i) THEN {}
               ELSE NeighbourReads(R(i), C(i), isHorizontal, g)) :
              i \in 0..last}

\* placeWord: the reads of its two checks and the cells written at lines
\* 307-311 once both have passed.
PlaceWordAccesses(word, row, col, isHorizontal) ==
  CanPlaceWordReads(word, row, col, isHorizontal, grid)
  \cup (IF CanPlaceWord(word, row, col, isHorizontal, grid) /\ Len(placedWords) > 0
        THEN HasValidWordBoundariesReads(word, row, col, isHorizontal, grid)
        ELSE {})
  \cup (IF PlaceWordAccepts(word, row, col, isHorizontal)
        THEN {<<CellRow(row, i, isHorizontal), CellCol(col, i, isHorizontal)>> :
                i \in 0..(Len(word) - 1)}
        ELSE {})

\* findValidPositions: canPlaceWord at every start the two double loops of
\* lines 207-222 visit.
FindValidPositionsReads(word, g) ==
  LET wordLength == Len(word)
  IN UNION ({CanPlaceWordReads(word, row, col, TRUE, g) :
               row \in 0..(Rows(g) - 1), col \in 0..(Cols(g) - wordLength)}
            \cup
            {CanPlaceWordReads(word, row, col, FALSE, g) :
               row \in 0..(Rows(g) - wordLength), col \in 0..(Cols(g) - 1)})

\* calculatePositionScore, lines 262-264: the cells of the word.
CalculatePositionScoreReads(word, row, col, isHorizontal) ==
  {<<CellRow(row, i, isHorizontal), CellCol(col, i, isHorizontal)>> :
     i \in 0..(Len(word) - 1)}

\* tryPlaceWord: the search, the scores of the sort, and placeWord on the
\* sorted positions up to the first one it accepts.
TryPlaceWordAccesses(word) ==
  LET positions == TryOrder(word)
      accepted == {k \in DOMAIN positions :
                     PlaceWordAccepts(word, positions[k].row, positions[k].col,
                                      positions[k].isHorizontal)}
      tried == IF accepted = {} THEN DOMAIN positions
               ELSE 1..SetMin(accepted)
  IN FindValidPositionsReads(word, grid)
     \cup UNION {CalculatePositionScoreReads(word, positions[k].row,
                   positions[k].col, positions[k].isHorizontal) :
                   k \in DOMAIN positions}
     \cup UNION {PlaceWordAccesses(word, positions[k].row, positions[k].col,
                                   positions[k].isHorizontal) : k \in tried}

\* The cells the next step of placeWords reads or writes: the placement of
\* the seed at lines 141-145, or one iteration of the loop.
PlaceWordsAccesses ==
  IF pc = "placeSeed"
  THEN PlaceWordAccesses(words[1], Rows(grid) \div 2,
                         (Cols(grid) - Len(words[1])) \div 2, TRUE)
  ELSE IF pc = "loop" /\ Len(words) > 0 /\ attempts < maxAttempts
  THEN TryPlaceWordAccesses(words[1])
  ELSE {}

\* C25: no step of generate reads or writes a grid cell outside the grid:
\* whatever the word list, every cell the seed placement and every loop
\* iteration touch has 0 <= row < rows and 0 <= col < cols.
C25_AccessesInGrid ==
  \A rc \in PlaceWordsAccesses : IsValidPosition(rc[1], rc[2], grid)

\* C26: trimGrid preserves the layout.  With a filled cell, the new grid has
\* the dimensions of the bounding box of the filled cells, its cell (r, c) is
\* the old cell (r + minRow, c + minCol), every placed word's row and col are
\* lowered by minRow and minCol, and so the number of filled cells and the
\* offsets between the words are as before; with no filled cell, grid and
\* placed words are left as they are.
C26_TrimPreservesLayout ==
  [][(pc = "loop" /\ pc' = "assemble") =>
       LET filled == FilledCells(grid)
           minRow == SetMin({rc[1] : rc \in filled})
           maxRow == SetMax({rc[1] : rc \in filled})
           minCol == SetMin({rc[2] : rc \in filled})
           maxCol == SetMax({rc[2] : rc \in filled})
       IN IF filled = {}
          THEN grid' = grid /\ placedWords' = placedWords
          ELSE /\ Rows(grid') = maxRow - minRow + 1
               /\ \A r \in DOMAIN grid' : Len(grid'[r]) = maxCol - minCol + 1
               /\ \A r \in 0..(maxRow - minRow), c \in 0..(maxCol - minCol) :
                    Cell(grid', r, c) = Cell(grid, r + minRow, c + minCol)
               /\ Cardinality(FilledCells(grid')) = Cardinality(filled)
               /\ Len(placedWords') = Len(placedWords)
               /\ \A k \in DOMAIN placedWords :
                    /\ placedWords'[k].row = placedWords[k].row - minRow
                    /\ placedWords'[k].col = placedWords[k].col - minCol
                    /\ placedWords'[k].word = placedWords[k].word
                    /\ placedWords'[k].isHorizontal = placedWords[k].isHorizontal
                    /\ placedWords'[k].clueNumber = placedWords[k].clueNumber
               /\ \A k, m \in DOMAIN placedWords :
                    /\ placedWords'[k].row - placedWords'[m].row
                         = placedWords[k].row - placedWords[m].row
                    /\ placedWords'[k].col - placedWords'[m].col
                         = placedWords[k].col - placedWords[m].col]_vars

\* A trimmed grid of three words, rows and columns cut off on both axes, a
\* word now starting in row 0 and a word now starting in column 0.
C26_Witness ==
  /\ pc = "assemble"
  /\ Len(placedWords) = 3
  /\ Rows(grid) < CalculateGridSize(SortedInput).rows
  /\ Cols(grid) < CalculateGridSize(SortedInput).cols
  /\ \E k \in DOMAIN placedWords : placedWords[k].row = 0
  /\ \E k \in DOMAIN placedWords : placedWords[k].col = 0
  /\ \E k \in DOMAIN placedWords : placedWords[k].row > 0

\* The indexes of the word's letters that land on filled cells at position p.
OverlapIndexes(word, p) ==
  {i \in 0..(Len(word) - 1) :
     Cell(grid, CellRow(p.row, i, p.isHorizontal),
                CellCol(p.col, i, p.isHorizontal)) # Null}

\* middleBias(i) = 1 - |2i / (L - 1) - 1| summed over a set of indexes, as a
\* fraction num / den with den = L - 1; L is at least 2.
RECURSIVE MiddleBiasSum(_, _)
MiddleBiasSum(indexes, L) ==
  IF indexes = {} THEN [num |-> 0, den |-> L - 1]
  ELSE LET i == CHOOSE x \in indexes : TRUE
           rest == MiddleBiasSum(indexes \ {i}, L)
           gap == IF 2 * i >= L - 1 THEN 2 * i - (L - 1) ELSE (L - 1) - 2 * i
       IN [num |-> rest.num + (L - 1) - gap, den |-> L - 1]

C28_ReuseMatchesFresh ==
  (pc = "done" /\ prev # NoPuzzle /\ ~prev.first /\ prev.fresh # NoPuzzle
     /\ input.list = prev.list) =>
    /\ puzzle = prev.fresh
    /\ \A k \in DOMAIN puzzle.words : puzzle.words[k].clueNumber = k
    /\ {puzzle.words[k].word : k \in DOMAIN puzzle.words} \subseteq Range(input.list)

\* A puzzle of three words, two of them crossing, returned by an engine whose
\* first call had the same word list and whose call before this one returned
\* a puzzle for another list.
C28_Witness ==
  /\ pc = "done"
  /\ prev # NoPuzzle
  /\ ~prev.first
  /\ prev.fresh # NoPuzzle
  /\ input.list = prev.list
  /\ prev.before = "done"
  /\ ~prev.same
  /\ Len(puzzle.words) = 3
  /\ SharedCells(puzzle.words) # {}

\* The cell after rc across the word's direction: the one below a cell of a
\* horizontal word, the one to the right of a cell of a vertical word.
CellAfter(rc, isHorizontal) ==
  IF isHorizontal THEN <<rc[1] + 1, rc[2]>> ELSE <<rc[1], rc[2] + 1>>

\* The cells position p gives the word, as a placed word has them.
PositionCells(word, p) ==
  WordCells([word |-> word, row |-> p.row, col |-> p.col,
             isHorizontal |-> p.isHorizontal])

\* C29: a candidate position of the word about to be attempted is rejected by
\* placeWord whenever one of its empty target cells has a filled cell right
\* below it (horizontal candidate) or right of it (vertical candidate).  So
\* no commit lays a word directly above, or directly left of, letters it does
\* not overlap; laying it directly below or right of the end of a run of two
\* or more letters is possible.
C29_NoWordAboveOrLeftOfLetters ==
  /\ []((pc = "loop" /\ Len(words) > 0) =>
          \A p \in Range(FindValidPositions(words[1], grid)) :
            (\E rc \in PositionCells(words[1], p) :
               /\ Cell(grid, rc[1], rc[2]) = Null
               /\ FilledAt(grid, CellAfter(rc, p.isHorizontal)))
            => ~PlaceWordAccepts(words[1], p.row, p.col, p.isHorizontal))
  /\ [][CommitStep =>
          \A rc \in WordCells(Committed) :
            Cell(grid, rc[1], rc[2]) = Null =>
              ~FilledAt(grid, CellAfter(rc, Committed.isHorizontal))]_vars

\* The word committed last overlaps no earlier word and has a cell directly
\* below, or directly right of, the last letter of a run of at least two
\* letters.
C29_Witness ==
  /\ pc = "loop"
  /\ Len(placedWords) >= 2
  /\ LET w == placedWords[Len(placedWords)]
     IN /\ \A k \in 1..(Len(placedWords) - 1) :
             WordCells(w) \cap WordCells(placedWords[k]) = {}
        /\ \E rc \in WordCells(w) :
             LET n == CellBefore(rc, w.isHorizontal)
             IN /\ FilledAt(grid, n)
                /\ FilledAt(grid, CellBefore(n, w.isHorizontal))

\* C30: the page enforces the minimum of 2 words.  Whatever the sequence of
\* edits of the word input and clicks on Generate, Clear and Regenerate with
\* Clues, every call of generate the page has made had a parsed word list of
\* at least 2 words.
C30_MinimumTwoWords ==
  pc # "new" => (input.defined /\ Len(input.list) >= 2)

\* The part of the minimum that handleGenerate enforces: a call of generate
\* made by handleGenerate has at least 2 words, and handleGenerate never sees
\* generate throw.
GenerateButtonChecks ==
  prev.handler = "generate" => (Len(input.list) >= 2 /\ pc # "error")

====
